---- MODULE Spec2Model ----
(***************************************************************************)
(* Access control and usage counters of the eduflow learning-resource      *)
(* platform: the row-level-security policies of the migration, and the     *)
(* client handlers (Dashboard.handleView / handleDownload / fetchResources *)
(* and Upload.handleUpload / handleDelete) that issue requests against     *)
(* them.  Every request is one atomic statement at the backend; a handler  *)
(* is split into steps at its awaits.                                      *)
(***************************************************************************)
EXTENDS Integers, FiniteSets, Sequences, TLC

\* ---------------------------------------------------------------- bounds
MaxRes == 1        \* resource rows ever created (fresh ids 1..MaxRes)
MaxCount == 2      \* cap on view_count / download_count
MaxViews == 2      \* resource_views rows ever inserted
MaxRoleOps == 1    \* role-management requests that take effect
NumCats == 1       \* seeded categories taken into the model
MaxObjects == 1    \* files ever written to the bucket
MaxSessions == 1   \* sessions with the Dashboard page mounted (Spec)
MaxTitle == 2      \* length of a resource title
MaxDescription == 1 \* length of a resource description
MaxQuery == 1      \* length of the dashboard's search text
SpanDays == 10     \* calendar days over which view events lie
MaxEvents == 4     \* view events in the log when the trend is computed
MaxType == 3       \* length of a file's content type, in tokens
MaxToasts == 2     \* notifications raised by toast(...)

\* ------------------------------------------------------------- constants
Principals == {"s", "t", "a"}                 \* auth.users; one session each
Roles == {"student", "teacher", "admin"}      \* app_role
NULL == "NULL"
CatNames == <<"Mathematics", "Science", "Literature", "History", "Technology", "Arts">>
CatIds == 1..NumCats
NoCat == 0                                    \* category_id IS NULL
Uncategorized == "Uncategorized"

VARIABLES
    user_roles,      \* table user_roles: set of [user_id, role]
    categories,      \* table categories: set of category ids
    resources,       \* table resources: set of rows
    resource_views,  \* table resource_views: set of rows
    objects,         \* storage.objects of bucket learning-resources
    nextId,          \* number of resource ids handed out
    nextView,        \* number of resource_views ids handed out
    roleOps,         \* role-management requests that took effect
    cache,           \* per session: Dashboard state `resources`
    fetch,           \* per session: position of fetchResources
    pc,              \* per session: position of the running handler
    route,           \* the browser at a route of App: what ProtectedRoute renders
    listing,         \* Dashboard: resources, searchQuery, selectedCategory and
                     \* the filteredResources rendered from them
    analytics,       \* Analytics: viewTrends, and the time they were fetched
    upload,          \* Upload: the file of the form and the file_type derived
    profiles,        \* table profiles: the user_id of each row
    overview,        \* Users: position of fetchUsers, users and stats
    category_names,  \* table categories: the name of each row
    distribution,    \* Analytics: categoryStats, and who fetched them
    toasts,          \* the notifications raised by toast(...), oldest first
    form             \* Upload: the form's fields, uploading, myResources and
                     \* the position of handleUpload

\* the state of the pages other than the Dashboard's and Upload's handlers,
\* and the table only they read
uiVars == <<category_names, distribution, toasts, form>>

pageVars == <<route, listing, analytics, upload, profiles, overview, uiVars>>

vars == <<user_roles, categories, resources, resource_views, objects,
          nextId, nextView, roleOps, cache, fetch, pc, pageVars>>

dbVars == <<user_roles, categories, resources, resource_views, objects,
            nextId, nextView, roleOps>>

\* ------------------------------------------------------ policy predicates
\* variant: the WHERE clause leaves out the role
HasRoleAnyRole(u, r) == \E row \in user_roles : row.user_id = u

HasRole(u, r) == \E row \in user_roles : row.user_id = u /\ row.role = r

IsStaff(uid) == HasRole(uid, "teacher") \/ HasRole(uid, "admin")

\* variant: the check compares the row's owner instead of asking for a role
ResourcesInsertCheckOwner(uid, row) == uid = row.uploaded_by

ResourcesInsertCheck(uid, row) == IsStaff(uid)

\* variant: the update policy asks for a staff role, as the insert policy does
ResourcesUpdateUsingStaff(uid, row) == IsStaff(uid)

ResourcesUpdateUsing(uid, row) == uid = row.uploaded_by \/ HasRole(uid, "admin")

\* variant: any authenticated principal may delete, as in the bucket policies
ResourcesDeleteUsingAny(uid, row) == TRUE

ResourcesDeleteUsing(uid, row) == uid = row.uploaded_by \/ HasRole(uid, "admin")

\* variant: the check only asks for a session, as the bucket policies do
ViewsInsertCheckAny(uid, row) == uid # NULL

ViewsInsertCheck(uid, row) == uid = row.user_id

ViewsSelectUsing(uid, row) == IsStaff(uid)

RolesSelectUsing(uid, row) == uid = row.user_id \/ HasRole(uid, "admin")

\* variant: role management opened to teachers, as categories are
RolesManageStaff(uid) == IsStaff(uid)

RolesManage(uid) == HasRole(uid, "admin")

CategoriesManage(uid) == IsStaff(uid)

StorageInsertCheck(uid) == IsStaff(uid)

\* ------------------------------------------------------------------ state
Idle == [at |-> "idle", id |-> 0, n |-> 0]

NoFetch == [at |-> "none", rows |-> {}]

\* the provisioned role assignments: one principal per role
Provisioned ==
    {[user_id |-> "s", role |-> "student"],
     [user_id |-> "t", role |-> "teacher"],
     [user_id |-> "a", role |-> "admin"]}

\* no route of App has been opened
NoRoute == [path |-> "/", user |-> NULL, userRole |-> NULL, loading |-> TRUE,
            element |-> "Index"]

\* useState(""), useState("all") over an empty list
NoListing == [resources |-> {}, searchQuery |-> <<>>, selectedCategory |-> "all",
              filteredResources |-> {}]

\* useState([]) of viewTrends
NoAnalytics == [viewer |-> NULL, now |-> 0, viewTrends |-> <<>>]

\* useState<File | null>(null): no file chosen, nothing derived
NoUpload == [file |-> <<NULL>>, file_type |-> NULL]

\* useState of users and stats; fetchUsers has not run
NoOverview ==
    [at |-> "idle", viewer |-> NULL, pending |-> {}, users |-> {},
     stats |-> [total |-> 0, students |-> 0, teachers |-> 0, admins |-> 0]]

\* the names the migration gives the seeded categories
SeededNames == [cid \in CatIds |-> CatNames[cid]]

\* useState<CategoryStats[]>([]): fetchAnalytics has not run
NoDistribution == [viewer |-> NULL, categoryStats |-> <<>>]

\* useState of the Upload form: nobody has opened the page
NoForm ==
    [user |-> NULL, at |-> "idle", title |-> "", description |-> "",
     categoryId |-> NoCat, file |-> NULL, uploading |-> FALSE,
     stored |-> 0, fetching |-> FALSE, myResources |-> {}]

\* no category renamed, nothing fetched, no notification raised
UiIdle ==
    /\ category_names = SeededNames
    /\ distribution = NoDistribution
    /\ toasts = <<>>
    /\ form = NoForm

\* the other pages before they are opened; every principal has its profile
PagesIdle ==
    /\ route = NoRoute
    /\ listing = NoListing
    /\ analytics = NoAnalytics
    /\ upload = NoUpload
    /\ profiles = Principals
    /\ overview = NoOverview
    /\ UiIdle

\* useState([]) and the useEffect of a mounted Dashboard: fetchResources
\* has been called and its select is on its way
Mounted(S) ==
    /\ cache = [c \in Principals |-> {}]
    /\ fetch = [c \in Principals |->
                  IF c \in S THEN [at |-> "select", rows |-> {}] ELSE NoFetch]
    /\ pc = [c \in Principals |-> Idle]

\* the database as the migration leaves it, with the roles provisioned
Migrated ==
    /\ user_roles = Provisioned
    /\ categories = CatIds
    /\ resources = {}
    /\ resource_views = {}
    /\ objects = {}
    /\ nextId = 0
    /\ nextView = 0
    /\ roleOps = 0

Init ==
    /\ Migrated
    /\ \E S \in SUBSET Principals :
          /\ Cardinality(S) = MaxSessions
          /\ Mounted(S)
    /\ PagesIdle

\* ------------------------------------------------------------ row helpers
Exists(id) == \E r \in resources : r.id = id

EventsOf(id) == {e \in resource_views : e.resource_id = id}

\* handlers of other sessions that will still insert a catalog row
PendingInserts == Cardinality({c \in Principals : pc[c].at = "insert"})

\* --------------------------------------------- Dashboard.fetchResources
\* supabase.from("resources").select("*"): every row is visible to an
\* authenticated session.
FetchSelect(c) ==
    /\ fetch[c].at = "select"
    /\ fetch' = [fetch EXCEPT ![c] = [at |-> "enrich", rows |-> resources]]
    /\ UNCHANGED <<pageVars, dbVars, cache, pc>>

\* the per-row category lookup: .eq("id", category_id).single()
CategoryLookup(cid) ==
    IF cid = NoCat THEN NULL
    ELSE IF cid \in categories THEN CatNames[cid] ELSE NULL

Enrich(row) ==
    [id |-> row.id, view_count |-> row.view_count,
     download_count |-> row.download_count,
     categories |-> CategoryLookup(row.category_id)]

FetchEnrich(c) ==
    /\ fetch[c].at = "enrich"
    /\ cache' = [cache EXCEPT ![c] = {Enrich(row) : row \in fetch[c].rows}]
    /\ fetch' = [fetch EXCEPT ![c] = NoFetch]
    /\ UNCHANGED <<pageVars, dbVars, pc>>

\* the category cell of a resource card
DisplayCategory(cached) ==
    IF cached.categories = NULL THEN Uncategorized ELSE cached.categories

\* ------------------------------------------------ Dashboard.handleView
\* the list is rendered (and a card can be clicked) only while loading is
\* false; one handler runs per session.
CanClick(c) == pc[c] = Idle /\ fetch[c].at = "none"

\* variant: one row per (resource, user), replaced on a repeated view
InsertViewUpsert(row) ==
    {e \in resource_views :
        ~(e.resource_id = row.resource_id /\ e.user_id = row.user_id)} \cup {row}

InsertView(row) == resource_views \cup {row}

ViewInsert(c, cached) ==
    /\ CanClick(c)
    /\ cached \in cache[c]
    /\ cached.view_count < MaxCount
    /\ nextView < MaxViews
    /\ LET row == [id |-> nextView + 1, resource_id |-> cached.id, user_id |-> c]
       IN  IF ViewsInsertCheck(c, row) /\ Exists(row.resource_id)
           THEN /\ resource_views' = InsertView(row)
                /\ nextView' = nextView + 1
           ELSE UNCHANGED <<resource_views, nextView>>
    /\ pc' = [pc EXCEPT ![c] = [at |-> "viewUpdate", id |-> cached.id,
                                n |-> cached.view_count]]
    /\ UNCHANGED <<pageVars, user_roles, categories, resources, objects, nextId,
                   roleOps, cache, fetch>>

\* .update({ view_count: resource.view_count + 1 }).eq("id", resource.id)
SetViewCount(uid, id, n) ==
    {IF r.id = id /\ ResourcesUpdateUsing(uid, r)
     THEN [r EXCEPT !.view_count = n] ELSE r : r \in resources}

ViewUpdate(c) ==
    /\ pc[c].at = "viewUpdate"
    /\ resources' = SetViewCount(c, pc[c].id, pc[c].n + 1)
    /\ pc' = [pc EXCEPT ![c] = Idle]
    /\ fetch' = [fetch EXCEPT ![c] = [at |-> "select", rows |-> {}]]
    /\ UNCHANGED <<pageVars, user_roles, categories, resource_views, objects, nextId,
                   nextView, roleOps, cache>>

\* -------------------------------------------- Dashboard.handleDownload
SetDownloadCount(uid, id, n) ==
    {IF r.id = id /\ ResourcesUpdateUsing(uid, r)
     THEN [r EXCEPT !.download_count = n] ELSE r : r \in resources}

Download(c, cached) ==
    /\ CanClick(c)
    /\ cached \in cache[c]
    /\ cached.download_count < MaxCount
    /\ resources' = SetDownloadCount(c, cached.id, cached.download_count + 1)
    /\ fetch' = [fetch EXCEPT ![c] = [at |-> "select", rows |-> {}]]
    /\ UNCHANGED <<pageVars, user_roles, categories, resource_views, objects, nextId,
                   nextView, roleOps, cache, pc>>

\* ------------------------------------------------- Upload.handleUpload
\* step 1: supabase.storage.from("learning-resources").upload(filePath, file)
\* cat is the form's categoryId (NoCat for ""), picked from a list fetched
\* when the page was mounted.
\* variant: uploadError is not thrown, the handler goes on to the insert
UploadStorageNoThrow(c, cat) ==
    /\ pc[c] = Idle
    /\ nextId + PendingInserts < MaxRes
    /\ Cardinality(objects) < MaxObjects
    /\ LET obj == [id |-> Cardinality(objects) + 1, owner |-> c]
       IN  /\ objects' = IF StorageInsertCheck(c) THEN objects \cup {obj} ELSE objects
           /\ pc' = [pc EXCEPT ![c] = [at |-> "insert", id |-> obj.id, n |-> cat]]
    /\ UNCHANGED <<pageVars, user_roles, categories, resources, resource_views, nextId,
                   nextView, roleOps, cache, fetch>>

UploadStorage(c, cat) ==
    /\ pc[c] = Idle
    /\ nextId + PendingInserts < MaxRes
    /\ Cardinality(objects) < MaxObjects
    /\ IF StorageInsertCheck(c)
       THEN LET obj == [id |-> Cardinality(objects) + 1, owner |-> c]
            IN  /\ objects' = objects \cup {obj}
                /\ pc' = [pc EXCEPT ![c] = [at |-> "insert", id |-> obj.id,
                                            n |-> cat]]
       ELSE \* uploadError is thrown: toast, finally setUploading(false)
            UNCHANGED <<objects, pc>>
    /\ UNCHANGED <<pageVars, user_roles, categories, resources, resource_views, nextId,
                   nextView, roleOps, cache, fetch>>

\* an insert into resources: WITH CHECK of the INSERT policy, then the
\* foreign key on category_id; the counters take their DEFAULT 0.
NewResource(owner, cat, url) ==
    [id |-> nextId + 1, uploaded_by |-> owner, category_id |-> cat,
     file_url |-> url, view_count |-> 0, download_count |-> 0]

InsertAccepted(uid, row) ==
    /\ ResourcesInsertCheck(uid, row)
    /\ row.category_id = NoCat \/ row.category_id \in categories

InsertResource(uid, row) ==
    IF InsertAccepted(uid, row)
    THEN /\ resources' = resources \cup {row}
         /\ nextId' = nextId + 1
    ELSE UNCHANGED <<resources, nextId>>

\* step 2: supabase.from("resources").insert({..., uploaded_by: user.id})
UploadInsert(c) ==
    /\ pc[c].at = "insert"
    /\ InsertResource(c, NewResource(c, pc[c].n, pc[c].id))
    /\ pc' = [pc EXCEPT ![c] = Idle]
    /\ UNCHANGED <<pageVars, user_roles, categories, resource_views, objects, nextView,
                   roleOps, cache, fetch>>

\* an insert request sent to the table by any authenticated client, naming
\* an arbitrary uploaded_by: the INSERT policy is all that stands in its way.
RawInsertResource(p, owner, cat) ==
    /\ nextId + PendingInserts < MaxRes
    /\ InsertResource(p, NewResource(owner, cat, 0))
    /\ UNCHANGED <<pageVars, user_roles, categories, resource_views, objects, nextView,
                   roleOps, cache, fetch, pc>>

\* ------------------------------------------------- Upload.handleDelete
\* supabase.from("resources").delete().eq("id", resourceId), sent once the
\* confirm() dialog is accepted; resourceId is whatever the (possibly stale)
\* list of the page holds.  The rows of resource_views that reference a
\* deleted row go with it (ON DELETE CASCADE).
\* variant: the .eq("id", resourceId) filter is missing
DeletedRowsNoFilter(uid, id) ==
    {r \in resources : ResourcesDeleteUsing(uid, r)}

DeletedRows(uid, id) ==
    {r \in resources : r.id = id /\ ResourcesDeleteUsing(uid, r)}

CascadeViews(gone) ==
    {e \in resource_views : \A r \in gone : e.resource_id # r.id}

DeleteResource(p, id) ==
    /\ pc[p] = Idle
    /\ resources' = resources \ DeletedRows(p, id)
    /\ resource_views' = CascadeViews(DeletedRows(p, id))
    /\ UNCHANGED <<pageVars, user_roles, categories, objects, nextId, nextView,
                   roleOps, cache, fetch, pc>>

\* ------------------------------------------------------------ categories
\* DELETE on categories under "Teachers and admins can manage categories";
\* resources.category_id is ON DELETE SET NULL.
\* variant: the foreign key cascades instead of setting null
SetNullCategoryCascade(cid) == {r \in resources : r.category_id # cid}

SetNullCategory(cid) ==
    {IF r.category_id = cid THEN [r EXCEPT !.category_id = NoCat] ELSE r :
        r \in resources}

DeleteCategory(p, cid) ==
    /\ cid \in categories
    /\ IF CategoriesManage(p)
       THEN /\ categories' = categories \ {cid}
            /\ resources' = SetNullCategory(cid)
       ELSE UNCHANGED <<categories, resources>>
    /\ UNCHANGED <<pageVars, user_roles, resource_views, objects, nextId, nextView,
                   roleOps, cache, fetch, pc>>

\* ------------------------------------------------------------ user_roles
\* "Admins can manage roles" FOR ALL: USING and WITH CHECK are both
\* has_role(auth.uid(), 'admin'), evaluated on the statement's snapshot.
RoleRow(u, r) == [user_id |-> u, role |-> r]

RoleInsert(p, u, r) ==
    /\ roleOps < MaxRoleOps
    /\ RoleRow(u, r) \notin user_roles
    /\ IF RolesManage(p)
       THEN /\ user_roles' = user_roles \cup {RoleRow(u, r)}
            /\ roleOps' = roleOps + 1
       ELSE UNCHANGED <<user_roles, roleOps>>
    /\ UNCHANGED <<pageVars, categories, resources, resource_views, objects, nextId,
                   nextView, cache, fetch, pc>>

RoleDelete(p, u, r) ==
    /\ roleOps < MaxRoleOps
    /\ RoleRow(u, r) \in user_roles
    /\ IF RolesManage(p)
       THEN /\ user_roles' = user_roles \ {RoleRow(u, r)}
            /\ roleOps' = roleOps + 1
       ELSE UNCHANGED <<user_roles, roleOps>>
    /\ UNCHANGED <<pageVars, categories, resources, resource_views, objects, nextId,
                   nextView, cache, fetch, pc>>

RoleUpdate(p, u, r, r2) ==
    /\ roleOps < MaxRoleOps
    /\ RoleRow(u, r) \in user_roles
    /\ RoleRow(u, r2) \notin user_roles
    /\ IF RolesManage(p)
       THEN /\ user_roles' = (user_roles \ {RoleRow(u, r)}) \cup {RoleRow(u, r2)}
            /\ roleOps' = roleOps + 1
       ELSE UNCHANGED <<user_roles, roleOps>>
    /\ UNCHANGED <<pageVars, categories, resources, resource_views, objects, nextId,
                   nextView, cache, fetch, pc>>

\* the rows of user_roles a SELECT by uid returns
VisibleRoles(uid) == {row \in user_roles : RolesSelectUsing(uid, row)}

\* -------------------------------------------------------- resource_views
\* a request reaches the backend either with the session of a principal or
\* with the anon key alone; auth.uid() is NULL for the latter
Anon == "anon"

Requesters == Principals \cup {Anon}

AuthUid(q) == IF q \in Principals THEN q ELSE NULL

\* the TO authenticated clause of a policy
ToAuthenticated(q) == q \in Principals

\* an insert into resource_views sent to the table by any client, naming an
\* arbitrary user_id (NULL: the column is nullable): the INSERT policy, then
\* the foreign key on resource_id.
RawInsertView(q, uid, rid) ==
    /\ nextView < MaxViews
    /\ LET row == [id |-> nextView + 1, resource_id |-> rid, user_id |-> uid]
       IN  IF /\ ToAuthenticated(q)
              /\ ViewsInsertCheck(AuthUid(q), row)
              /\ Exists(rid)
           THEN /\ resource_views' = InsertView(row)
                /\ nextView' = nextView + 1
           ELSE UNCHANGED <<resource_views, nextView>>
    /\ UNCHANGED <<pageVars, user_roles, categories, resources, objects, nextId,
                   roleOps, cache, fetch, pc>>

\* the rows of resource_views a SELECT by q returns
VisibleViews(q) ==
    {e \in resource_views : ToAuthenticated(q) /\ ViewsSelectUsing(AuthUid(q), e)}

\* ------------------------------------------------------- storage.objects
\* the bucket policies name no role (no TO clause): they apply to every
\* request that reaches storage.objects, with or without a session.
Bucket == "learning-resources"

\* every object of the model lies in the one bucket the migration creates
BucketOf(obj) == Bucket

StorageSelectUsing(q, obj) == BucketOf(obj) = Bucket

StorageUpdateUsing(q, obj) == BucketOf(obj) = Bucket

StorageDeleteUsing(q, obj) == BucketOf(obj) = Bucket

\* paths of the bucket: those of the catalog's files and MaxObjects more
ObjectIds == 1..(MaxRes + 1 + MaxObjects)

FreeObjectIds == {i \in ObjectIds : \A o \in objects : o.id # i}

\* an upload sent to the bucket by any client
StorageInsert(q) ==
    /\ FreeObjectIds # {}
    /\ LET i == CHOOSE i \in FreeObjectIds : \A j \in FreeObjectIds : i <= j
       IN  IF StorageInsertCheck(AuthUid(q))
           THEN objects' = objects \cup {[id |-> i, owner |-> AuthUid(q)]}
           ELSE UNCHANGED objects
    /\ UNCHANGED <<pageVars, user_roles, categories, resources, resource_views, nextId,
                   nextView, roleOps, cache, fetch, pc>>

\* UPDATE storage.objects SET owner = o WHERE id = oid
StorageUpdate(q, oid, o) ==
    /\ \E obj \in objects : obj.id = oid
    /\ objects' = {IF obj.id = oid /\ StorageUpdateUsing(q, obj)
                   THEN [obj EXCEPT !.owner = o] ELSE obj : obj \in objects}
    /\ UNCHANGED <<pageVars, user_roles, categories, resources, resource_views, nextId,
                   nextView, roleOps, cache, fetch, pc>>

\* DELETE FROM storage.objects WHERE id = oid
StorageDelete(q, oid) ==
    /\ \E obj \in objects : obj.id = oid
    /\ objects' = {obj \in objects : ~(obj.id = oid /\ StorageDeleteUsing(q, obj))}
    /\ UNCHANGED <<pageVars, user_roles, categories, resources, resource_views, nextId,
                   nextView, roleOps, cache, fetch, pc>>

\* the objects a read by q returns
VisibleObjects(q) == {obj \in objects : StorageSelectUsing(q, obj)}

\* ------------------------------------------------- App / ProtectedRoute
\* the routes of App that are wrapped in ProtectedRoute
GatedPaths == {"/dashboard", "/upload", "/analytics", "/users"}

\* the requireRole prop of the route; the /dashboard route gives none
RequireRole(path) ==
    CASE path = "/upload" -> [given |-> TRUE, roles |-> {"teacher", "admin"}]
      [] path = "/analytics" -> [given |-> TRUE, roles |-> {"teacher", "admin"}]
      [] path = "/users" -> [given |-> TRUE, roles |-> {"admin"}]
      [] OTHER -> [given |-> FALSE, roles |-> {}]

\* the children of the route
PageOf(path) ==
    CASE path = "/upload" -> "Upload"
      [] path = "/analytics" -> "Analytics"
      [] path = "/users" -> "Users"
      [] OTHER -> "Dashboard"

\* variant: the loading test is missing
ProtectedRouteNoLoader(user, userRole, loading, requireRole, children) ==
    IF user = NULL THEN "Navigate /auth"
    ELSE IF /\ requireRole.given
            /\ userRole # NULL
            /\ userRole \notin requireRole.roles
         THEN "Navigate /dashboard"
    ELSE children

ProtectedRoute(user, userRole, loading, requireRole, children) ==
    IF loading THEN "Loader2"
    ELSE IF user = NULL THEN "Navigate /auth"
    ELSE IF /\ requireRole.given
            /\ userRole # NULL
            /\ userRole \notin requireRole.roles
         THEN "Navigate /dashboard"
    ELSE children

\* what the router ends up showing for a request of path: a <Navigate>
\* element replaces the location, and the route of the new location renders
Render(path, user, userRole, loading) ==
    LET out == ProtectedRoute(user, userRole, loading, RequireRole(path),
                              PageOf(path))
    IN  IF out = "Navigate /auth" THEN [path |-> "/auth", element |-> "Auth"]
        ELSE IF out = "Navigate /dashboard"
             THEN [path |-> "/dashboard",
                   element |-> ProtectedRoute(user, userRole, loading,
                                              RequireRole("/dashboard"),
                                              PageOf("/dashboard"))]
        ELSE [path |-> path, element |-> out]

\* useAuth: the role the session reports for its user, one of the roles the
\* principal holds, none for a principal that holds no role
SessionRoles(u) ==
    IF {r \in Roles : [user_id |-> u, role |-> r] \in user_roles} = {}
    THEN {NULL}
    ELSE {r \in Roles : [user_id |-> u, role |-> r] \in user_roles}

\* the browser, holding the session of u (NULL: none), opens a gated path;
\* useAuth is still loading
Open(u, path) ==
    /\ LET shown == Render(path, u, NULL, TRUE)
       IN  route' = [path |-> shown.path, user |-> u, userRole |-> NULL,
                     loading |-> TRUE, element |-> shown.element]
    /\ UNCHANGED <<dbVars, cache, fetch, pc, listing, analytics, upload, profiles,
                   overview, uiVars>>

\* useAuth has loaded: the route renders again
AuthLoaded ==
    /\ route.loading
    /\ route.path \in GatedPaths
    /\ \E role \in SessionRoles(route.user) :
          LET shown == Render(route.path, route.user, role, FALSE)
          IN  route' = [path |-> shown.path, user |-> route.user,
                        userRole |-> role, loading |-> FALSE,
                        element |-> shown.element]
    /\ UNCHANGED <<dbVars, cache, fetch, pc, listing, analytics, upload, profiles,
                   overview, uiVars>>

\* -------------------------------------------- Dashboard.filteredResources
\* text is a sequence of characters; the letters of the model
Chars == {"a", "A", "b"}

\* description: null
NoText == <<NULL>>

ToLowerCase(str) == [i \in 1..Len(str) |-> IF str[i] = "A" THEN "a" ELSE str[i]]

\* String.prototype.includes: the first position from k on where q occurs
RECURSIVE IncludesFrom(_, _, _)
IncludesFrom(str, q, k) ==
    IF k + Len(q) - 1 > Len(str) THEN FALSE
    ELSE IF SubSeq(str, k, k + Len(q) - 1) = q THEN TRUE
    ELSE IncludesFrom(str, q, k + 1)

Includes(str, q) == IncludesFrom(str, q, 1)

\* resource.description?.toLowerCase().includes(...): undefined, which the
\* filter takes as false, when there is no description
MatchesSearch(resource, searchQuery) ==
    \/ Includes(ToLowerCase(resource.title), ToLowerCase(searchQuery))
    \/ /\ resource.description # NoText
       /\ Includes(ToLowerCase(resource.description), ToLowerCase(searchQuery))

\* resource.categories?.name === selectedCategory
MatchesCategory(resource, selectedCategory) ==
    \/ selectedCategory = "all"
    \/ resource.categories # NULL /\ resource.categories = selectedCategory

\* variant: the search text is not lower-cased
FilteredResourcesRawQuery(resources_, searchQuery, selectedCategory) ==
    {resource \in resources_ :
        /\ \/ Includes(ToLowerCase(resource.title), searchQuery)
           \/ /\ resource.description # NoText
              /\ Includes(ToLowerCase(resource.description), searchQuery)
        /\ MatchesCategory(resource, selectedCategory)}

FilteredResources(resources_, searchQuery, selectedCategory) ==
    {resource \in resources_ :
        /\ MatchesSearch(resource, searchQuery)
        /\ MatchesCategory(resource, selectedCategory)}

Texts(n) == UNION {[1..k -> Chars] : k \in 0..n}

\* the names a category cell or the category select can hold
ListedCategories == {CatNames[i] : i \in 1..(NumCats + 1)}

\* the list a fetch has put on the page: one resource of any title,
\* description and category, and next to it a second, categorised one
Listings ==
    {{[id |-> 1, title |-> title, description |-> description,
       categories |-> cat],
      [id |-> 2, title |-> <<"b">>, description |-> NoText,
       categories |-> CatNames[1]]} :
        title \in Texts(MaxTitle),
        description \in Texts(MaxDescription) \cup {NoText},
        cat \in ListedCategories \cup {NULL}}

Rendered(resources_, searchQuery, selectedCategory) ==
    [resources |-> resources_, searchQuery |-> searchQuery,
     selectedCategory |-> selectedCategory,
     filteredResources |->
         FilteredResources(resources_, searchQuery, selectedCategory)]

\* onChange of the search input: one character typed or removed
SetSearchQuery(q) ==
    /\ \/ /\ Len(listing.searchQuery) < MaxQuery
          /\ \E ch \in Chars : q = Append(listing.searchQuery, ch)
       \/ /\ listing.searchQuery # <<>>
          /\ q = SubSeq(listing.searchQuery, 1, Len(listing.searchQuery) - 1)
    /\ listing' = Rendered(listing.resources, q, listing.selectedCategory)
    /\ UNCHANGED <<dbVars, cache, fetch, pc, route, analytics, upload, profiles,
                   overview, uiVars>>

\* onValueChange of the category select
SetSelectedCategory(name) ==
    /\ name # listing.selectedCategory
    /\ listing' = Rendered(listing.resources, listing.searchQuery, name)
    /\ UNCHANGED <<dbVars, cache, fetch, pc, route, analytics, upload, profiles,
                   overview, uiVars>>

\* ------------------------------------------- Analytics.fetchAnalytics
\* time is counted in hours
HoursPerDay == 24

WindowDays == 7

\* new Date(viewed_at).toLocaleDateString(): the calendar day of a time
DateOf(t) == t \div HoursPerDay

\* .gte("viewed_at", new Date(Date.now() - 7 * 24 * 60 * 60 * 1000)), on
\* the rows the SELECT policy shows to the viewer
ViewData(q, now) ==
    {v \in VisibleViews(q) : v.viewed_at >= now - WindowDays * HoursPerDay}

\* variant: the window starts with the calendar day of its lower bound
ViewTrendsWholeDays(q, now) ==
    LET viewData == {v \in VisibleViews(q) :
                        DateOf(v.viewed_at) >= DateOf(now - WindowDays * HoursPerDay)}
    IN  [date \in {DateOf(v.viewed_at) : v \in viewData} |->
            Cardinality({v \in viewData : DateOf(v.viewed_at) = date})]

\* trends[date] = (trends[date] || 0) + 1 over viewData
ViewTrends(q, now) ==
    [date \in {DateOf(v.viewed_at) : v \in ViewData(q, now)} |->
        Cardinality({v \in ViewData(q, now) : DateOf(v.viewed_at) = date})]

\* the view-trend part of fetchAnalytics, run by q at time now; viewed_at
\* is stamped by the database (DEFAULT now()), so no row is later than now
FetchAnalytics(q, now) ==
    /\ \A v \in resource_views : v.viewed_at <= now
    /\ analytics' = [viewer |-> q, now |-> now, viewTrends |-> ViewTrends(q, now)]
    /\ UNCHANGED <<dbVars, cache, fetch, pc, route, listing, upload, profiles,
                   overview, uiVars>>

\* ------------------------------- Analytics.fetchAnalytics: categoryStats
\* the names a row of categories can carry: name is TEXT NOT NULL UNIQUE,
\* which admits the empty text
CategoryNames == {"", CatNames[1], CatNames[2]}

\* UPDATE categories SET name = name WHERE id = cid, under "Teachers and
\* admins can manage categories" and the UNIQUE constraint on name
RenameCategory(p, cid, name) ==
    /\ cid \in categories
    /\ name # category_names[cid]
    /\ IF /\ CategoriesManage(p)
          /\ \A other \in categories \ {cid} : category_names[other] # name
       THEN category_names' = [category_names EXCEPT ![cid] = name]
       ELSE UNCHANGED category_names
    /\ UNCHANGED <<dbVars, cache, fetch, pc, route, listing, analytics, upload,
                   profiles, overview, distribution, toasts, form>>

\* .from("resources").select("category_id, categories (name)"): every row
\* of resources the SELECT policy shows, with the name of the row of
\* categories it references (null when it references none)
CategoryData(q) ==
    {[id |-> r.id, category_id |-> r.category_id,
      categories |-> IF r.category_id \in categories
                     THEN category_names[r.category_id] ELSE NULL] :
        r \in {x \in resources : ToAuthenticated(q)}}

\* item.categories?.name || "Uncategorized": the empty name is falsy
CategoryNameOf(item) ==
    IF item.categories = NULL \/ item.categories = ""
    THEN Uncategorized ELSE item.categories

\* stats[categoryName] = (stats[categoryName] || 0) + 1 over categoryData
CategoryStats(categoryData) ==
    [name \in {CategoryNameOf(item) : item \in categoryData} |->
        Cardinality({item \in categoryData : CategoryNameOf(item) = name})]

\* the category part of fetchAnalytics, run by q
FetchCategoryStats(q) ==
    /\ distribution' = [viewer |-> q,
                        categoryStats |-> CategoryStats(CategoryData(q))]
    /\ UNCHANGED <<dbVars, cache, fetch, pc, route, listing, analytics, upload,
                   profiles, overview, category_names, toasts, form>>

\* --------------------------------------------------- Upload.getFileType
\* a content type is a sequence of tokens: "video/mp4" is <<"video", "/",
\* "x">>; no token is the start of another
Tokens == {"video", "image", "application", "pdf", "/", "x"}

ContentTypes == UNION {[1..k -> Tokens] : k \in 0..MaxType}

StartsWith(str, prefix) ==
    /\ Len(str) >= Len(prefix)
    /\ SubSeq(str, 1, Len(prefix)) = prefix

\* variant: the prefixes are tested without their slash
GetFileTypeNoSlash(type) ==
    IF StartsWith(type, <<"video">>) THEN "video"
    ELSE IF StartsWith(type, <<"image">>) THEN "image"
    ELSE IF type = <<"application", "/", "pdf">> THEN "pdf"
    ELSE "other"

GetFileType(type) ==
    IF StartsWith(type, <<"video", "/">>) THEN "video"
    ELSE IF StartsWith(type, <<"image", "/">>) THEN "image"
    ELSE IF type = <<"application", "/", "pdf">> THEN "pdf"
    ELSE "other"

\* onChange of the file input: setFile
SetFile(type) ==
    /\ upload' = [file |-> type, file_type |-> NULL]
    /\ UNCHANGED <<dbVars, cache, fetch, pc, route, listing, analytics, profiles,
                   overview, uiVars>>

\* handleUpload building the row it inserts: file_type: getFileType(file)
DeriveFileType ==
    /\ upload.file # <<NULL>>
    /\ upload.file_type = NULL
    /\ upload' = [upload EXCEPT !.file_type = GetFileType(upload.file)]
    /\ UNCHANGED <<dbVars, cache, fetch, pc, route, listing, analytics, profiles,
                   overview, uiVars>>

\* ------------------------------------------------ toast notifications
\* toast({ title: "Error", description, variant: "destructive" })
ErrorToast(description) == [title |-> "Error", description |-> description]

\* toast({ title: "Success", description })
SuccessToast(description) == [title |-> "Success", description |-> description]

Toast(t) == Append(toasts, t)

\* ------------------------------------ Upload.handleUpload: the form's state
\* what the inputs of the form can hold
Titles == {"", "Algebra Basics"}

Descriptions == {"", "An introduction"}

FormFiles == {NULL, "application/pdf"}

\* onChange of an input of the form: setTitle, setDescription,
\* setCategoryId, setFile (the inputs are not disabled while uploading)
EditForm(title, description, cat, file) ==
    /\ form.user # NULL
    /\ <<title, description, cat, file>>
          # <<form.title, form.description, form.categoryId, form.file>>
    /\ form' = [form EXCEPT !.title = title, !.description = description,
                            !.categoryId = cat, !.file = file]
    /\ UNCHANGED <<dbVars, cache, fetch, pc, route, listing, analytics, upload,
                   profiles, overview, category_names, distribution, toasts>>

\* onSubmit: the button is disabled while uploading, the title and file
\* inputs are required; if (!file || !user) return; setUploading(true), and
\* the upload to the bucket is sent
SubmitUpload ==
    /\ ~form.uploading
    /\ form.title # ""
    /\ form.file # NULL /\ form.user # NULL
    /\ nextId < MaxRes
    /\ Cardinality(objects) < MaxObjects
    /\ Len(toasts) < MaxToasts
    /\ form' = [form EXCEPT !.uploading = TRUE, !.at = "storage"]
    /\ UNCHANGED <<dbVars, cache, fetch, pc, route, listing, analytics, upload,
                   profiles, overview, category_names, distribution, toasts>>

\* variant: setUploading(false) sits at the end of the try block instead of
\* in finally
UploadFailedNoFinally(f) == [f EXCEPT !.at = "idle"]

\* catch: toast with the error's message; finally: setUploading(false)
UploadFailed(f) == [f EXCEPT !.uploading = FALSE, !.at = "idle"]

\* the success toast, the form reset, fetchMyResources() called and not
\* awaited; finally: setUploading(false)
UploadSucceeded(f) ==
    [f EXCEPT !.uploading = FALSE, !.at = "idle", !.title = "",
              !.description = "", !.categoryId = NoCat, !.file = NULL,
              !.fetching = TRUE]

\* the upload to the bucket answers; ok is false when the request failed
\* on its way. if (uploadError) throw uploadError
StorageDone(ok) ==
    /\ form.at = "storage"
    /\ IF ok /\ StorageInsertCheck(form.user)
       THEN LET obj == [id |-> Cardinality(objects) + 1, owner |-> form.user]
            IN  /\ objects' = objects \cup {obj}
                /\ form' = [form EXCEPT !.at = "insert", !.stored = obj.id]
                /\ UNCHANGED toasts
       ELSE /\ form' = UploadFailed(form)
            /\ toasts' = Toast(ErrorToast("uploadError.message"))
            /\ UNCHANGED objects
    /\ UNCHANGED <<user_roles, categories, resources, resource_views, nextId,
                   nextView, roleOps, cache, fetch, pc, route, listing, analytics,
                   upload, profiles, overview, category_names, distribution>>

\* the insert into resources answers. if (insertError) throw insertError
InsertDone(ok) ==
    /\ form.at = "insert"
    /\ LET row == NewResource(form.user, form.categoryId, form.stored)
       IN  IF ok /\ InsertAccepted(form.user, row)
           THEN /\ resources' = resources \cup {row}
                /\ nextId' = nextId + 1
                /\ form' = UploadSucceeded(form)
                /\ toasts' = Toast(SuccessToast("Resource uploaded successfully"))
           ELSE /\ form' = UploadFailed(form)
                /\ toasts' = Toast(ErrorToast("insertError.message"))
                /\ UNCHANGED <<resources, nextId>>
    /\ UNCHANGED <<user_roles, categories, resource_views, objects, nextView,
                   roleOps, cache, fetch, pc, route, listing, analytics, upload,
                   profiles, overview, category_names, distribution>>

\* fetchMyResources answers: setMyResources(data || [])
FetchMyResources(ok) ==
    /\ form.fetching
    /\ form' = [form EXCEPT
                   !.fetching = FALSE,
                   !.myResources =
                       IF ok THEN {r.id : r \in {x \in resources :
                                                   x.uploaded_by = form.user}}
                       ELSE {}]
    /\ UNCHANGED <<dbVars, cache, fetch, pc, route, listing, analytics, upload,
                   profiles, overview, category_names, distribution, toasts>>

\* --------------------------------- Upload.handleDelete: the page's state
\* the delete button of a listed resource, confirm() accepted; ok is false
\* when the request failed on its way. A delete that the policy filters
\* out removes no row and is no error.
HandleDelete(id, ok) ==
    /\ form.user # NULL
    /\ id \in form.myResources
    /\ Len(toasts) < MaxToasts
    /\ IF ok
       THEN /\ resources' = resources \ DeletedRows(form.user, id)
            /\ resource_views' = CascadeViews(DeletedRows(form.user, id))
            /\ toasts' = Toast(SuccessToast("Resource deleted successfully"))
            /\ form' = [form EXCEPT !.fetching = TRUE]
       ELSE /\ toasts' = Toast(ErrorToast("error.message"))
            /\ UNCHANGED <<resources, resource_views, form>>
    /\ UNCHANGED <<user_roles, categories, objects, nextId, nextView, roleOps,
                   cache, fetch, pc, route, listing, analytics, upload, profiles,
                   overview, category_names, distribution>>

\* ------------------------------------- requests that fail on their way
\* fetchResources: error is set; toast, setLoading(false), return
FetchSelectFails(c) ==
    /\ fetch[c].at = "select"
    /\ Len(toasts) < MaxToasts
    /\ fetch' = [fetch EXCEPT ![c] = NoFetch]
    /\ toasts' = Toast(ErrorToast("Failed to load resources"))
    /\ UNCHANGED <<dbVars, cache, pc, route, listing, analytics, upload, profiles,
                   overview, category_names, distribution, form>>

\* handleView: the result of the insert is not looked at; the handler goes
\* on to the update
ViewInsertFails(c, cached) ==
    /\ CanClick(c)
    /\ cached \in cache[c]
    /\ cached.view_count < MaxCount
    /\ pc' = [pc EXCEPT ![c] = [at |-> "viewUpdate", id |-> cached.id,
                                n |-> cached.view_count]]
    /\ UNCHANGED <<pageVars, dbVars, cache, fetch>>

\* variant: insert and update run in one transaction, a failed update takes
\* the session's event row back
ViewUpdateFailsRollback(c) ==
    /\ pc[c].at = "viewUpdate"
    /\ pc' = [pc EXCEPT ![c] = Idle]
    /\ fetch' = [fetch EXCEPT ![c] = [at |-> "select", rows |-> {}]]
    /\ resource_views' =
          {e \in resource_views : ~(e.user_id = c /\ e.resource_id = pc[c].id)}
    /\ UNCHANGED <<pageVars, user_roles, categories, resources, objects, nextId,
                   nextView, roleOps, cache>>

\* handleView: the result of the update is not looked at; window.open and
\* fetchResources follow
ViewUpdateFails(c) ==
    /\ pc[c].at = "viewUpdate"
    /\ pc' = [pc EXCEPT ![c] = Idle]
    /\ fetch' = [fetch EXCEPT ![c] = [at |-> "select", rows |-> {}]]
    /\ UNCHANGED <<pageVars, dbVars, cache>>

\* handleDownload: the result of the update is not looked at
DownloadFails(c, cached) ==
    /\ CanClick(c)
    /\ cached \in cache[c]
    /\ fetch' = [fetch EXCEPT ![c] = [at |-> "select", rows |-> {}]]
    /\ UNCHANGED <<pageVars, dbVars, cache, pc>>

\* fetchAnalytics: data is null, the if (viewData) block is skipped and
\* viewTrends keeps what it held
FetchAnalyticsFails(q, now) ==
    /\ analytics' = [viewer |-> q, now |-> now, viewTrends |-> analytics.viewTrends]
    /\ UNCHANGED <<dbVars, cache, fetch, pc, route, listing, upload, profiles,
                   overview, uiVars>>

\* ----------------------------------------------------- Users.fetchUsers
\* supabase.from("profiles").select(...): every row is visible to an
\* authenticated session; the per-profile queries are then sent
FetchProfiles(q) ==
    /\ overview.at = "idle"
    /\ overview' = [overview EXCEPT !.at = "join", !.viewer = q,
                                    !.pending = profiles, !.users = {}]
    /\ UNCHANGED <<dbVars, cache, fetch, pc, route, listing, analytics,
                   upload, profiles, uiVars>>

\* the two queries for one profile: its rows of user_roles as the SELECT
\* policy shows them to the viewer, and the ids of its resources
UserData(q, u) ==
    [user_id |-> u,
     user_roles |-> {row.role : row \in {x \in VisibleRoles(q) : x.user_id = u}},
     resources |-> {r.id : r \in {x \in resources : x.uploaded_by = u}}]

FetchUserData(u) ==
    /\ overview.at = "join"
    /\ u \in overview.pending
    /\ overview' = [overview EXCEPT
                       !.pending = @ \ {u},
                       !.users = @ \cup {UserData(overview.viewer, u)}]
    /\ UNCHANGED <<dbVars, cache, fetch, pc, route, listing, analytics,
                   upload, profiles, uiVars>>

\* variant: a user is counted under a role only when it is its one role
CountRoleExclusive(usersWithData, role) ==
    Cardinality({u \in usersWithData : u.user_roles = {role}})

\* usersWithData.filter((u) => u.user_roles.some((r) => r.role === role)).length
CountRole(usersWithData, role) ==
    Cardinality({u \in usersWithData : \E r \in u.user_roles : r = role})

Stats(usersWithData) ==
    [total |-> Cardinality(usersWithData),
     students |-> CountRole(usersWithData, "student"),
     teachers |-> CountRole(usersWithData, "teacher"),
     admins |-> CountRole(usersWithData, "admin")]

\* Promise.all has resolved: setUsers, setStats
SetStats ==
    /\ overview.at = "join"
    /\ overview.pending = {}
    /\ overview' = [overview EXCEPT !.at = "done", !.stats = Stats(overview.users)]
    /\ UNCHANGED <<dbVars, cache, fetch, pc, route, listing, analytics,
                   upload, profiles, uiVars>>

\* --------------------------------------------------------- specification
\* the Dashboard page of the sessions in S
DashboardNext(S) ==
    \/ \E c \in S : FetchSelect(c)
    \/ \E c \in S : FetchEnrich(c)
    \/ \E c \in S : \E cached \in cache[c] : ViewInsert(c, cached)
    \/ \E c \in S : ViewUpdate(c)
    \/ \E c \in S : \E cached \in cache[c] : Download(c, cached)

\* the Upload page and the requests that reach the tables directly
BackendNext ==
    \/ \E c \in Principals : \E cat \in CatIds \cup {NoCat} : UploadStorage(c, cat)
    \/ \E c \in Principals : UploadInsert(c)
    \/ \E p, owner \in Principals : \E cat \in CatIds \cup {NoCat} :
          RawInsertResource(p, owner, cat)
    \/ \E p \in Principals : \E id \in 1..MaxRes : DeleteResource(p, id)
    \/ \E p \in Principals : \E cid \in CatIds : DeleteCategory(p, cid)
    \/ \E p, u \in Principals : \E r \in Roles : RoleInsert(p, u, r)
    \/ \E p, u \in Principals : \E r \in Roles : RoleDelete(p, u, r)
    \/ \E p, u \in Principals : \E r, r2 \in Roles : RoleUpdate(p, u, r, r2)

\* the whole system: the mounted Dashboard sessions, the Upload page and
\* the requests on the tables
Next == DashboardNext(Principals) \/ BackendNext

Spec == Init /\ [][Next]_vars

\* the tables and their policies alone: no Dashboard is mounted
InitPolicy == Migrated /\ Mounted({}) /\ PagesIdle

NextPolicy == BackendNext

SpecPolicy == InitPolicy /\ [][NextPolicy]_vars

\* usage recording on a catalog that holds one resource uploaded by the
\* teacher, with the Dashboard of every principal mounted
InitUsage ==
    /\ user_roles = Provisioned
    /\ categories = CatIds
    /\ resources = {[id |-> 1, uploaded_by |-> "t", category_id |-> NoCat,
                     file_url |-> 1, view_count |-> 0, download_count |-> 0]}
    /\ resource_views = {}
    /\ objects = {[id |-> 1, owner |-> "t"]}
    /\ nextId = 1
    /\ nextView = 0
    /\ roleOps = 0
    /\ Mounted(Principals)
    /\ PagesIdle

NextUsage == DashboardNext(Principals)

SpecUsage == InitUsage /\ [][NextUsage]_vars

\* a burst of views: every invocation starts before any of them has
\* completed, and every invoking session may write the resource
BurstInvoke(c, cached) ==
    /\ \A e \in resource_views : pc[e.user_id].at = "viewUpdate"
    /\ \E r \in resources :
          r.id = cached.id /\ (c = r.uploaded_by \/ HasRole(c, "admin"))
    /\ ViewInsert(c, cached)

NextBurst ==
    \/ \E c \in Principals : FetchSelect(c)
    \/ \E c \in Principals : FetchEnrich(c)
    \/ \E c \in Principals : \E cached \in cache[c] : BurstInvoke(c, cached)
    \/ \E c \in Principals : ViewUpdate(c)

SpecBurst == InitUsage /\ [][NextBurst]_vars

\* one operation at a time: a card is clicked only when no handler and no
\* fetch of another session is running, and the handler and its refresh
\* end before the next click
Quiet(c) ==
    \A d \in Principals \ {c} : pc[d] = Idle /\ fetch[d].at = "none"

SoloView(c, cached) == Quiet(c) /\ ViewInsert(c, cached)

SoloDownload(c, cached) == Quiet(c) /\ Download(c, cached)

NextSolo ==
    \/ \E c \in Principals : FetchSelect(c)
    \/ \E c \in Principals : FetchEnrich(c)
    \/ \E c \in Principals : \E cached \in cache[c] : SoloView(c, cached)
    \/ \E c \in Principals : ViewUpdate(c)
    \/ \E c \in Principals : \E cached \in cache[c] : SoloDownload(c, cached)

SpecSolo == InitUsage /\ [][NextSolo]_vars

\* usage recording by one session on the catalog of one resource, with
\* requests that may fail on their way
InitRecord ==
    /\ user_roles = Provisioned
    /\ categories = CatIds
    /\ resources = {[id |-> 1, uploaded_by |-> "t", category_id |-> NoCat,
                     file_url |-> 1, view_count |-> 0, download_count |-> 0]}
    /\ resource_views = {}
    /\ objects = {[id |-> 1, owner |-> "t"]}
    /\ nextId = 1
    /\ nextView = 0
    /\ roleOps = 0
    /\ \E c \in Principals : Mounted({c})
    /\ PagesIdle

NextRecord ==
    \/ \E c \in Principals : FetchSelect(c)
    \/ \E c \in Principals : FetchEnrich(c)
    \/ \E c \in Principals : \E cached \in cache[c] : ViewInsert(c, cached)
    \/ \E c \in Principals : \E cached \in cache[c] : ViewInsertFails(c, cached)
    \/ \E c \in Principals : ViewUpdate(c)
    \/ \E c \in Principals : ViewUpdateFails(c)
    \/ \E c \in Principals : \E cached \in cache[c] : Download(c, cached)
    \/ \E c \in Principals : \E cached \in cache[c] : DownloadFails(c, cached)

SpecRecord == InitRecord /\ [][NextRecord]_vars

\* the usage log and its policies alone: a catalog of one resource, every
\* client free to send any insert, the role assignments changing meanwhile
InitViews ==
    /\ user_roles = Provisioned
    /\ categories = CatIds
    /\ resources = {[id |-> 1, uploaded_by |-> "t", category_id |-> NoCat,
                     file_url |-> 1, view_count |-> 0, download_count |-> 0]}
    /\ resource_views = {}
    /\ objects = {[id |-> 1, owner |-> "t"]}
    /\ nextId = 1
    /\ nextView = 0
    /\ roleOps = 0
    /\ Mounted({})
    /\ PagesIdle

NextViews ==
    \/ \E q \in Requesters : \E uid \in Principals \cup {NULL} :
          \E rid \in 1..MaxRes : RawInsertView(q, uid, rid)
    \/ \E p \in Principals : \E id \in 1..MaxRes : DeleteResource(p, id)
    \/ \E p, u \in Principals : \E r \in Roles : RoleInsert(p, u, r)
    \/ \E p, u \in Principals : \E r \in Roles : RoleDelete(p, u, r)
    \/ \E p, u \in Principals : \E r, r2 \in Roles : RoleUpdate(p, u, r, r2)

SpecViews == InitViews /\ [][NextViews]_vars

\* the catalog and the bucket: MaxRes + 1 resources, uploaded in turn by the
\* teacher and the admin, each with its file in the bucket
CatalogIds == 1..(MaxRes + 1)

CatalogOwner(i) == IF i % 2 = 1 THEN "t" ELSE "a"

InitStorage ==
    /\ user_roles = Provisioned
    /\ categories = CatIds
    /\ resources = {[id |-> i, uploaded_by |-> CatalogOwner(i),
                     category_id |-> NoCat, file_url |-> i,
                     view_count |-> 0, download_count |-> 0] : i \in CatalogIds}
    /\ resource_views = {}
    /\ objects = {[id |-> i, owner |-> CatalogOwner(i)] : i \in CatalogIds}
    /\ nextId = MaxRes + 1
    /\ nextView = 0
    /\ roleOps = 0
    /\ Mounted({})
    /\ PagesIdle

NextStorage ==
    \/ \E q \in Requesters : StorageInsert(q)
    \/ \E q \in Requesters : \E oid \in ObjectIds :
          \E o \in Principals \cup {NULL} : StorageUpdate(q, oid, o)
    \/ \E q \in Requesters : \E oid \in ObjectIds : StorageDelete(q, oid)
    \/ \E p, u \in Principals : \E r \in Roles : RoleInsert(p, u, r)
    \/ \E p, u \in Principals : \E r \in Roles : RoleDelete(p, u, r)
    \/ \E p, u \in Principals : \E r, r2 \in Roles : RoleUpdate(p, u, r, r2)

SpecStorage == InitStorage /\ [][NextStorage]_vars

\* the Upload page's delete on that catalog, while categories and role
\* assignments change
NextCatalog ==
    \/ \E p \in Principals : \E id \in CatalogIds : DeleteResource(p, id)
    \/ \E p \in Principals : \E cid \in CatIds : DeleteCategory(p, cid)
    \/ \E p, u \in Principals : \E r \in Roles : RoleInsert(p, u, r)
    \/ \E p, u \in Principals : \E r \in Roles : RoleDelete(p, u, r)
    \/ \E p, u \in Principals : \E r, r2 \in Roles : RoleUpdate(p, u, r, r2)

SpecCatalog == InitStorage /\ [][NextCatalog]_vars

\* the router: sessions open gated paths while role assignments change
NextRoutes ==
    \/ \E u \in Principals \cup {NULL} : \E path \in GatedPaths : Open(u, path)
    \/ AuthLoaded
    \/ \E p, u \in Principals : \E r \in Roles : RoleInsert(p, u, r)
    \/ \E p, u \in Principals : \E r \in Roles : RoleDelete(p, u, r)
    \/ \E p, u \in Principals : \E r, r2 \in Roles : RoleUpdate(p, u, r, r2)

SpecRoutes == InitPolicy /\ [][NextRoutes]_vars

\* the dashboard's filter over a fetched list
InitFilter ==
    /\ Migrated
    /\ Mounted({})
    /\ route = NoRoute
    /\ analytics = NoAnalytics
    /\ upload = NoUpload
    /\ profiles = Principals
    /\ overview = NoOverview
    /\ UiIdle
    /\ \E l \in Listings : listing = Rendered(l, <<>>, "all")

NextFilter ==
    \/ \E q \in Texts(MaxQuery) : SetSearchQuery(q)
    \/ \E name \in ListedCategories \cup {"all"} : SetSelectedCategory(name)

SpecFilter == InitFilter /\ [][NextFilter]_vars

\* the view trend over a log of views made in the morning or the evening
\* of the days 0 .. SpanDays - 1: any MaxEvents of them, or every one from
\* some time to a later one; read at noon of the last day, or on the day
\* after
ViewTimes == {d * HoursPerDay + h : d \in 0..(SpanDays - 1), h \in {6, 18}}

NowTimes ==
    {(SpanDays - 1) * HoursPerDay + 12, SpanDays * HoursPerDay,
     SpanDays * HoursPerDay + 12}

Logs ==
    {T \in SUBSET ViewTimes : Cardinality(T) <= MaxEvents}
    \cup {{t \in ViewTimes : lo <= t /\ t <= hi} : lo, hi \in ViewTimes}

InitTrends ==
    /\ user_roles = Provisioned
    /\ categories = CatIds
    /\ resources = {[id |-> 1, uploaded_by |-> "t", category_id |-> NoCat,
                     file_url |-> 1, view_count |-> 0, download_count |-> 0]}
    /\ \E T \in Logs :
          /\ resource_views = {[id |-> t, resource_id |-> 1, user_id |-> "s",
                                viewed_at |-> t] : t \in T}
          /\ nextView = Cardinality(T)
    /\ objects = {[id |-> 1, owner |-> "t"]}
    /\ nextId = 1
    /\ roleOps = 0
    /\ Mounted({})
    /\ PagesIdle

NextTrends ==
    \E q \in Principals : \E now \in NowTimes : FetchAnalytics(q, now)

SpecTrends == InitTrends /\ [][NextTrends]_vars

\* the Upload form: files of every content type are chosen and submitted
NextFileType ==
    \/ \E type \in ContentTypes : SetFile(type)
    \/ DeriveFileType

SpecFileType == InitPolicy /\ [][NextFileType]_vars

\* the Users page: some principals have a profile, the student may not have
\* been given its role yet, and role assignments change while the page loads
InitUsers ==
    /\ \E X \in SUBSET {[user_id |-> "s", role |-> "student"]} :
          user_roles = Provisioned \ X
    /\ categories = CatIds
    /\ resources = {}
    /\ resource_views = {}
    /\ objects = {}
    /\ nextId = 0
    /\ nextView = 0
    /\ roleOps = 0
    /\ Mounted({})
    /\ route = NoRoute
    /\ listing = NoListing
    /\ analytics = NoAnalytics
    /\ upload = NoUpload
    /\ profiles \in SUBSET Principals
    /\ overview = NoOverview
    /\ UiIdle

NextUsers ==
    \/ \E q \in Principals : FetchProfiles(q)
    \/ \E u \in Principals : FetchUserData(u)
    \/ SetStats
    \/ \E p, u \in Principals : \E r \in Roles : RoleInsert(p, u, r)
    \/ \E p, u \in Principals : \E r \in Roles : RoleDelete(p, u, r)
    \/ \E p, u \in Principals : \E r, r2 \in Roles : RoleUpdate(p, u, r, r2)

SpecUsers == InitUsers /\ [][NextUsers]_vars

\* the category distribution over a catalog of MaxRes + 1 resources filed
\* under any of the categories or under none, while categories are renamed
\* and deleted
InitDistribution ==
    /\ user_roles = Provisioned
    /\ categories = CatIds
    /\ \E cat \in [CatalogIds -> CatIds \cup {NoCat}] :
          resources = {[id |-> i, uploaded_by |-> CatalogOwner(i),
                        category_id |-> cat[i], file_url |-> i,
                        view_count |-> 0, download_count |-> 0] : i \in CatalogIds}
    /\ resource_views = {}
    /\ objects = {[id |-> i, owner |-> CatalogOwner(i)] : i \in CatalogIds}
    /\ nextId = MaxRes + 1
    /\ nextView = 0
    /\ roleOps = 0
    /\ Mounted({})
    /\ PagesIdle

NextDistribution ==
    \/ \E q \in Principals : FetchCategoryStats(q)
    \/ \E p \in Principals : \E cid \in CatIds : \E name \in CategoryNames :
          RenameCategory(p, cid, name)
    \/ \E p \in Principals : \E cid \in CatIds : DeleteCategory(p, cid)
    \/ \E p \in Principals : \E id \in CatalogIds : DeleteResource(p, id)

SpecDistribution == InitDistribution /\ [][NextDistribution]_vars

\* the Upload page opened by any of the principals on the migrated
\* database: its requests may fail on their way, and every request that
\* was sent is answered
InitUpload ==
    /\ Migrated
    /\ Mounted({})
    /\ route = NoRoute
    /\ listing = NoListing
    /\ analytics = NoAnalytics
    /\ upload = NoUpload
    /\ profiles = Principals
    /\ overview = NoOverview
    /\ category_names = SeededNames
    /\ distribution = NoDistribution
    /\ toasts = <<>>
    /\ \E u \in Principals : form = [NoForm EXCEPT !.user = u, !.fetching = TRUE]

Answers ==
    \/ \E ok \in BOOLEAN : StorageDone(ok)
    \/ \E ok \in BOOLEAN : InsertDone(ok)

NextUpload ==
    \/ \E title \in Titles : \E description \in Descriptions :
          \E cat \in CatIds \cup {NoCat} : \E file \in FormFiles :
             EditForm(title, description, cat, file)
    \/ SubmitUpload
    \/ Answers
    \/ \E ok \in BOOLEAN : FetchMyResources(ok)

SpecUpload == InitUpload /\ [][NextUpload]_vars /\ WF_vars(Answers)

\* every page of one browser, on the migrated database: the Dashboard of
\* the session is mounted, its Upload page is open, and any request may
\* fail on its way
InitFaults ==
    /\ Migrated
    /\ \E u \in Principals :
          /\ Mounted({u})
          /\ form = [NoForm EXCEPT !.user = u, !.fetching = TRUE]
    /\ route = NoRoute
    /\ listing = NoListing
    /\ analytics = NoAnalytics
    /\ upload = NoUpload
    /\ profiles = Principals
    /\ overview = NoOverview
    /\ category_names = SeededNames
    /\ distribution = NoDistribution
    /\ toasts = <<>>

NextFaults ==
    \/ DashboardNext({form.user})
    \/ FetchSelectFails(form.user)
    \/ \E cached \in cache[form.user] : ViewInsertFails(form.user, cached)
    \/ ViewUpdateFails(form.user)
    \/ \E cached \in cache[form.user] : DownloadFails(form.user, cached)
    \/ FetchCategoryStats(form.user)
    \/ FetchAnalyticsFails(form.user, HoursPerDay)
    \/ EditForm("Algebra Basics", "", NoCat, "application/pdf")
    \/ SubmitUpload
    \/ Answers
    \/ \E ok \in BOOLEAN : FetchMyResources(ok)
    \/ \E id \in 1..MaxRes : \E ok \in BOOLEAN : HandleDelete(id, ok)

SpecFaults == InitFaults /\ [][NextFaults]_vars

\* ================================================================ claims
RowIn(tbl, id) == CHOOSE r \in tbl : r.id = id

Staff(p) ==
    \E row \in user_roles : row.user_id = p /\ row.role \in {"teacher", "admin"}

Admin(p) == [user_id |-> p, role |-> "admin"] \in user_roles

OnlyStudent(p) == {row.role : row \in {x \in user_roles : x.user_id = p}} = {"student"}

Owns(p, id) == \E r \in resources : r.id = id /\ r.uploaded_by = p

\* C1: once every recordView of a burst of concurrent invocations by
\* sessions permitted to write the resource has completed, view_count has
\* risen by the number of invocations (it starts at 0, and every invocation
\* has left one row in resource_views).
C1_ConcurrentViewsAllCounted ==
    (\A c \in Principals : pc[c].at # "viewUpdate") =>
        \A r \in resources : r.view_count = Cardinality(EventsOf(r.id))

\* C2: recordView by a principal that holds only the student role and does
\* not own the resource appends exactly one ViewEvent with its own user_id
\* and leaves the stored view_count exactly 1 higher.
C2_StudentViewCounted ==
    [][\A c \in Principals :
         /\ \A cached \in cache[c] :
               (ViewInsert(c, cached) /\ OnlyStudent(c) /\ Exists(cached.id)
                   /\ ~Owns(c, cached.id))
               => \E e \in resource_views' :
                     /\ e \notin resource_views
                     /\ resource_views' = resource_views \cup {e}
                     /\ e.user_id = c /\ e.resource_id = cached.id
         /\ (ViewUpdate(c) /\ OnlyStudent(c) /\ Exists(pc[c].id)
                /\ ~Owns(c, pc[c].id))
            => RowIn(resources', pc[c].id).view_count
                  = RowIn(resources, pc[c].id).view_count + 1]_vars

\* C5: no step makes view_count or download_count of a resource smaller.
C5_CountersNeverDecrease ==
    [][\A r \in resources : \A r2 \in resources' :
         r2.id = r.id =>
            /\ r2.view_count >= r.view_count
            /\ r2.download_count >= r.download_count]_vars

\* C3: createResource (Upload.handleUpload) by a principal without the
\* teacher or admin role is rejected at whichever request it has reached and
\* adds no catalog row; by a principal holding one of them the storage write
\* is accepted and the catalog insert adds exactly one row, owned by the
\* principal, with view_count = download_count = 0.
C3_CreateNeedsStaffRole ==
    [][\A c \in Principals :
         /\ \A cat \in CatIds \cup {NoCat} :
               UploadStorage(c, cat) =>
                  /\ resources' = resources
                  /\ IF Staff(c) THEN pc'[c].at = "insert" ELSE pc'[c] = Idle
         /\ (UploadInsert(c) /\ ~Staff(c)) => resources' = resources
         /\ (UploadInsert(c) /\ Staff(c)
                /\ (pc[c].n = NoCat \/ pc[c].n \in categories))
            => \E r \in resources' :
                  /\ r \notin resources
                  /\ resources' = resources \cup {r}
                  /\ r.uploaded_by = c
                  /\ r.view_count = 0 /\ r.download_count = 0]_vars

C3_Witness ==
    \E r \in resources :
        /\ r.file_url # 0 /\ Staff(r.uploaded_by)
        /\ r.view_count = 0 /\ r.download_count = 0

\* C4: every row an accepted insert adds to resources names in uploaded_by
\* a principal that holds the teacher or admin role when the row is added.
C4_UploaderHeldStaffRole ==
    [][\A r \in resources' : r \notin resources => Staff(r.uploaded_by)]_vars

\* what a SELECT on user_roles shows to a principal without admin
C6_OwnRolesOnly ==
    \A p \in Principals :
        ~Admin(p) => VisibleRoles(p) = {row \in user_roles : row.user_id = p}

\* C6: a principal without the admin role reads only its own rows of
\* user_roles, and a step changes user_roles only as an insert, update or
\* delete requested by a principal that holds admin in that step; requests of
\* principals without admin leave user_roles as it is.
C6_RolesManagedByAdminOnly ==
    /\ []C6_OwnRolesOnly
    /\ [][user_roles' # user_roles =>
             /\ \E p, u \in Principals : \E r \in Roles :
                   /\ Admin(p)
                   /\ \/ RoleInsert(p, u, r)
                      \/ RoleDelete(p, u, r)
                      \/ \E r2 \in Roles : RoleUpdate(p, u, r, r2)
             /\ \A p, u \in Principals : \A r \in Roles :
                   (\/ RoleInsert(p, u, r)
                    \/ RoleDelete(p, u, r)
                    \/ \E r2 \in Roles : RoleUpdate(p, u, r, r2)) => Admin(p)]_vars

C6_Witness == roleOps > 0 /\ user_roles # Provisioned

\* C7: a delete of an existing Resource row removes it exactly when the
\* requester is its uploaded_by or holds admin, and the counter update of
\* handleView / handleDownload writes the row exactly then; a request of any
\* other principal leaves resources as it is.
Permitted(p, id) == Owns(p, id) \/ Admin(p)

C7_UpdateDeleteOwnerOrAdmin ==
    [][\A p \in Principals :
         /\ \A id \in 1..MaxRes :
               (DeleteResource(p, id) /\ Exists(id)) =>
                  IF Permitted(p, id)
                  THEN resources' = resources \ {RowIn(resources, id)}
                  ELSE resources' = resources
         /\ (ViewUpdate(p) /\ Exists(pc[p].id)) =>
               IF Permitted(p, pc[p].id)
               THEN resources' = (resources \ {RowIn(resources, pc[p].id)}) \cup
                       {[RowIn(resources, pc[p].id) EXCEPT !.view_count = pc[p].n + 1]}
               ELSE resources' = resources
         /\ \A cached \in cache[p] :
               (Download(p, cached) /\ Exists(cached.id)) =>
                  IF Permitted(p, cached.id)
                  THEN resources' = (resources \ {RowIn(resources, cached.id)}) \cup
                          {[RowIn(resources, cached.id)
                               EXCEPT !.download_count = cached.download_count + 1]}
                  ELSE resources' = resources]_vars

\* a view by a principal outside the policy is logged and not counted, a
\* download by one inside it is counted
C7_Witness ==
    \E r \in resources :
        /\ r.download_count > 0
        /\ r.view_count = 0
        /\ \E e \in EventsOf(r.id) :
              /\ ~Permitted(e.user_id, r.id)
              /\ pc[e.user_id] = Idle

\* C8: deleting a role assignment leaves resources untouched; a principal
\* that holds neither teacher nor admin still deletes and updates every
\* Resource it owns, and every attempt of it to create a Resource is rejected.
C8_OwnerRightsSurviveRoleLoss ==
    [][/\ \A p, u \in Principals : \A r \in Roles :
             RoleDelete(p, u, r) => resources' = resources
       /\ \A u \in Principals : ~Staff(u) =>
             /\ \A id \in 1..MaxRes :
                   (DeleteResource(u, id) /\ Owns(u, id)) =>
                      ~\E r \in resources' : r.id = id
             /\ (ViewUpdate(u) /\ Owns(u, pc[u].id)) =>
                   RowIn(resources', pc[u].id).view_count = pc[u].n + 1
             /\ \A cached \in cache[u] :
                   (Download(u, cached) /\ Owns(u, cached.id)) =>
                      RowIn(resources', cached.id).download_count
                         = cached.download_count + 1
             /\ \A cat \in CatIds \cup {NoCat} :
                   /\ UploadStorage(u, cat) =>
                         pc'[u] = Idle /\ objects' = objects /\ resources' = resources
                   /\ \A owner \in Principals :
                         RawInsertResource(u, owner, cat) => resources' = resources
             /\ UploadInsert(u) => resources' = resources]_vars

\* the uploader of a resource no longer holds the teacher role it was
\* provisioned with, and a download it made has been written: the count is
\* one above what its page still shows
C8_Witness ==
    \E r \in resources :
        /\ r.file_url # 0
        /\ roleOps > 0
        /\ [user_id |-> r.uploaded_by, role |-> "teacher"] \in Provisioned \ user_roles
        /\ ~Staff(r.uploaded_by)
        /\ fetch[r.uploaded_by].at = "select"
        /\ \E cached \in cache[r.uploaded_by] :
              cached.id = r.id /\ r.download_count = cached.download_count + 1

C10_ViewLogOnlyGrows == [][resource_views \subseteq resource_views']_vars

\* C10 amended: no ViewEvent row is ever modified, and a row leaves the log
\* only in a step that deletes the Resource it references.
C10_ViewLogAppendOnlyUpToCascade ==
    [][/\ \A e \in resource_views :
             e \notin resource_views' =>
                /\ Exists(e.resource_id)
                /\ ~\E r \in resources' : r.id = e.resource_id
                /\ \A e2 \in resource_views' : e2.id # e.id
       /\ \A e2 \in resource_views' :
             e2 \notin resource_views => \A e \in resource_views : e.id # e2.id]_vars

\* views were logged, and went with their resource when it was deleted
C10_Witness ==
    /\ resources = {}
    /\ nextId > 0
    /\ nextView > 0
    /\ resource_views = {}

\* what a SELECT on resource_views returns: everything to a principal that
\* holds teacher or admin, nothing to anyone else
C11_ViewsReadByStaffOnly ==
    \A q \in Requesters :
        VisibleViews(q) = IF Staff(q) THEN resource_views ELSE {}

\* C11: an insert into resource_views (for an existing resource) adds its
\* row exactly when the row's user_id is the id of the requesting principal;
\* an insert naming another principal or no principal, or sent without a
\* session, adds nothing; and the rows are read only by principals that hold
\* the teacher or admin role.
C11_ViewInsertOwnIdReadStaff ==
    /\ []C11_ViewsReadByStaffOnly
    /\ [][\A q \in Requesters : \A uid \in Principals \cup {NULL} :
            \A rid \in 1..MaxRes :
               (RawInsertView(q, uid, rid) /\ Exists(rid)) =>
                  IF q \in Principals /\ uid = q
                  THEN \E e \in resource_views' :
                          /\ e \notin resource_views
                          /\ resource_views' = resource_views \cup {e}
                          /\ e.user_id = q /\ e.resource_id = rid
                  ELSE resource_views' = resource_views]_vars

\* a principal without teacher or admin has logged a view of its own, which
\* it cannot read back
C11_Witness ==
    \E e \in resource_views :
        /\ ~Staff(e.user_id)
        /\ VisibleViews(e.user_id) = {}
        /\ \E q \in Principals : VisibleViews(q) = resource_views

\* C12: an update or delete of an object of the bucket takes effect for any
\* authenticated principal and for no unauthenticated requester; an object
\* is created only for a principal that holds teacher or admin; every
\* requester reads every object.
C12_BucketWritesNeedSession ==
    /\ [](\A q \in Requesters : VisibleObjects(q) = objects)
    /\ [][\A q \in Requesters :
            /\ StorageInsert(q) =>
                  IF Staff(q)
                  THEN \E obj \in objects' :
                          obj \notin objects /\ objects' = objects \cup {obj}
                  ELSE objects' = objects
            /\ \A oid \in ObjectIds :
                  /\ StorageDelete(q, oid) =>
                        IF q \in Principals
                        THEN \A obj \in objects' : obj.id # oid
                        ELSE objects' = objects
                  /\ \A o \in Principals \cup {NULL} :
                        StorageUpdate(q, oid, o) =>
                           IF q \in Principals
                           THEN \E obj \in objects' : obj.id = oid /\ obj.owner = o
                           ELSE objects' = objects]_vars

\* C14: deleteResource removes from the catalog the row of the given id and
\* no other row, changes no remaining row, and leaves every stored object
\* (the file of the deleted row included) in the bucket.
C14_DeleteRemovesCatalogRowOnly ==
    [][\A p \in Principals : \A id \in CatalogIds :
          DeleteResource(p, id) =>
             /\ objects' = objects
             /\ resources' \subseteq resources
             /\ \A r \in resources : r.id # id => r \in resources'
             /\ Permitted(p, id) => \A r \in resources' : r.id # id]_vars

\* a row of the catalog is gone, its file is still in the bucket, and the
\* other rows are as they were uploaded
C14_Witness ==
    \E id \in CatalogIds :
        /\ ~Exists(id)
        /\ \E obj \in objects : obj.id = id
        /\ \A i \in CatalogIds \ {id} :
              \E r \in resources :
                 r.id = i /\ r.file_url = i /\ r.uploaded_by = CatalogOwner(i)

\* the handler is at its insert only after its file was stored
C13_InsertOnlyAfterStore ==
    \A c \in Principals :
        pc[c].at = "insert" =>
            \E obj \in objects : obj.id = pc[c].id /\ obj.owner = c

\* C13: when the storage write of createResource fails the handler ends
\* there, no catalog insert is attempted and no row is created; when the
\* catalog insert fails after the file was stored, no row is created and the
\* stored object stays in the bucket.
C13_CreateAllOrNothing ==
    /\ []C13_InsertOnlyAfterStore
    /\ [][\A c \in Principals :
            /\ \A cat \in CatIds \cup {NoCat} :
                  (UploadStorage(c, cat) /\ ~Staff(c)) =>
                     /\ pc'[c] = Idle
                     /\ resources' = resources /\ nextId' = nextId
                     /\ objects' = objects
            /\ (UploadInsert(c)
                   /\ (~Staff(c) \/ (pc[c].n # NoCat /\ pc[c].n \notin categories)))
               => /\ resources' = resources
                  /\ objects' = objects
                  /\ \E obj \in objects' : obj.id = pc[c].id
                  /\ pc'[c] = Idle]_vars

\* a file is in the bucket, its handler has ended, and the catalog never
\* received a row
C13_Witness ==
    /\ objects # {}
    /\ resources = {} /\ nextId = 0
    /\ \A c \in Principals : pc[c] = Idle

\* C15: when the route of a gated path renders for an authenticated
\* principal that holds none of the roles the route requires, the browser
\* is sent to /dashboard and the gated page is not rendered.
C15_WrongRoleRedirected ==
    [][(/\ AuthLoaded
        /\ route.user # NULL
        /\ RequireRole(route.path).given
        /\ \A r \in RequireRole(route.path).roles :
              [user_id |-> route.user, role |-> r] \notin user_roles)
       => /\ route'.path = "/dashboard"
          /\ route'.element = "Dashboard"
          /\ route'.element # PageOf(route.path)]_vars

\* C16: for every principal p, with or without a session, existing or not,
\* and every role r, has_role(p, r) is true exactly when user_roles holds
\* the row (p, r).
C16_HasRoleIffAssigned ==
    \A p \in Principals \cup {NULL, "nobody"} : \A r \in Roles :
        HasRole(p, r) <=> [user_id |-> p, role |-> r] \in user_roles

\* the assignments are no longer the provisioned ones: has_role answers
\* true for a pair that was added and false for the others
C16_Witness ==
    /\ \E p \in Principals : \E r \in Roles :
          HasRole(p, r) /\ [user_id |-> p, role |-> r] \notin Provisioned
    /\ \E p \in Principals : \E r \in Roles : ~HasRole(p, r)
    /\ \A r \in Roles : ~HasRole("nobody", r) /\ ~HasRole(NULL, r)

\* two characters that differ at most in case
SameLetter(x, y) ==
    x = y \/ {x, y} = {"a", "A"}

\* q occurs in str at some position, case aside
OccursIn(q, str) ==
    \E i \in 0..(Len(str) - Len(q)) :
        \A j \in 1..Len(q) : SameLetter(str[i + j], q[j])

\* C17: the listing holds a resource exactly when the search text occurs,
\* case aside, in its title or in its description (a resource without
\* description is matched on its title alone), and the category filter is
\* "all" or is the resource's category name (a resource without category
\* passes under "all" only).
C17_ListingIsFilter ==
    \A r \in listing.resources :
        r \in listing.filteredResources <=>
            /\ \/ OccursIn(listing.searchQuery, r.title)
               \/ r.description # NoText /\ OccursIn(listing.searchQuery, r.description)
            /\ \/ listing.selectedCategory = "all"
               \/ r.categories # NULL /\ r.categories = listing.selectedCategory

\* a resource without category and description is listed under "all" for a
\* search text that matches its title in the other case, next to a resource
\* that the text leaves out
C17_Witness ==
    /\ listing.selectedCategory = "all"
    /\ listing.searchQuery = <<"a">>
    /\ \E r \in listing.filteredResources :
          /\ r.categories = NULL /\ r.description = NoText
          /\ r.title = <<"b", "A">>
    /\ listing.filteredResources # listing.resources

\* the same resource is left out once a category is selected
C17_WitnessExcluded ==
    /\ listing.selectedCategory # "all"
    /\ \E r \in listing.resources \ listing.filteredResources :
          r.categories = NULL /\ OccursIn(listing.searchQuery, r.title)

EventDates == {DateOf(e.viewed_at) : e \in resource_views}

\* C18 as stated: computed over view events that span 10 days, the view
\* trend has at most 7 buckets, each of them one of the 7 most recent
\* calendar days with events, and the count of each bucket is the number of
\* view events of that calendar day.
C18_TrendIsLastSevenDays ==
    (/\ analytics # NoAnalytics
     /\ 0 \in EventDates /\ SpanDays - 1 \in EventDates) =>
        /\ Cardinality(DOMAIN analytics.viewTrends) <= 7
        /\ \A date \in DOMAIN analytics.viewTrends :
              /\ Cardinality({d \in EventDates : d > date}) < 7
              /\ analytics.viewTrends[date] =
                    Cardinality({e \in resource_views : DateOf(e.viewed_at) = date})

\* the view events a viewer holding teacher or admin is shown that are no
\* older than 7 times 24 hours at the time of the query
C18_InWindow ==
    IF Staff(analytics.viewer)
    THEN {e \in resource_views : analytics.now - e.viewed_at <= 7 * 24}
    ELSE {}

\* C18 amended: the view trend has one bucket for each calendar day on
\* which a view event of the trailing 7 x 24 hours lies, which are at most 8
\* days, none before the day 7 days back; the count of a bucket is the
\* number of view events of that day inside the window.
C18_TrendIsTrailingWindow ==
    analytics # NoAnalytics =>
        /\ DOMAIN analytics.viewTrends = {DateOf(e.viewed_at) : e \in C18_InWindow}
        /\ \A date \in DOMAIN analytics.viewTrends :
              /\ analytics.viewTrends[date] =
                    Cardinality({e \in C18_InWindow : DateOf(e.viewed_at) = date})
              /\ date >= DateOf(analytics.now) - 7
              /\ date <= DateOf(analytics.now)
        /\ Cardinality(DOMAIN analytics.viewTrends) <= 8

\* a trend of 8 buckets, the oldest of which counts fewer views than its
\* calendar day has
C18_Witness ==
    /\ Cardinality(DOMAIN analytics.viewTrends) = 8
    /\ \E date \in DOMAIN analytics.viewTrends :
          /\ date = DateOf(analytics.now) - 7
          /\ analytics.viewTrends[date] <
                Cardinality({e \in resource_views : DateOf(e.viewed_at) = date})

C20_Holders(r) == {u \in overview.users : r \in u.user_roles}

\* the counts of a loaded overview against the role sets it shows
C20_CountsPerRole ==
    overview.at = "done" =>
        /\ {u.user_id : u \in overview.users} = profiles
        /\ overview.stats.total = Cardinality(profiles)
        /\ overview.stats.students = Cardinality(C20_Holders("student"))
        /\ overview.stats.teachers = Cardinality(C20_Holders("teacher"))
        /\ overview.stats.admins = Cardinality(C20_Holders("admin"))

\* C20: in the overview loaded by an admin the role set shown for a profile
\* is the set of roles assigned to its principal when it was read; the
\* students, teachers and admins counts are the numbers of profiles whose
\* role set holds that role, and the total is the number of profiles: a
\* principal with several roles is counted in each of them and once in the
\* total, a profile with no role in the total only.
C20_RoleCountsOverlap ==
    /\ []C20_CountsPerRole
    /\ [][\A u \in Principals :
            (FetchUserData(u) /\ Admin(overview.viewer)) =>
               \E row \in overview'.users :
                  /\ row.user_id = u
                  /\ row.user_roles =
                        {r \in Roles : [user_id |-> u, role |-> r] \in user_roles}]_vars

\* an admin's overview in which one principal holds two roles and is
\* counted under both: the role counts add up to more than the total
C20_Witness ==
    /\ overview.at = "done"
    /\ Admin(overview.viewer)
    /\ overview.stats.students + overview.stats.teachers + overview.stats.admins
          > overview.stats.total
    /\ \E u \in overview.users :
          /\ u.user_roles = {"student", "teacher"}
          /\ overview.stats.students >= 1 /\ overview.stats.teachers >= 1

\* an admin's overview with a profile that has no role: it is in the total
\* and in no role count
C20_WitnessNoRole ==
    /\ overview.at = "done"
    /\ Admin(overview.viewer)
    /\ \E u \in overview.users : u.user_roles = {}
    /\ overview.stats.students + overview.stats.teachers + overview.stats.admins
          < overview.stats.total

\* the bucket a catalog row belongs to
C21_Bucket(r) ==
    IF r.category_id = NoCat THEN "Uncategorized" ELSE category_names[r.category_id]

RECURSIVE C21_Sum(_)
C21_Sum(f) ==
    IF DOMAIN f = {} THEN 0
    ELSE LET x == CHOOSE x \in DOMAIN f : TRUE
         IN  f[x] + C21_Sum([y \in DOMAIN f \ {x} |-> f[y]])

\* C21: the category distribution computed by fetchAnalytics has a bucket
\* for the category name of every catalog row ("Uncategorized" for a row
\* whose category reference is null), every bucket counts the rows of that
\* name, and the counts add up to the number of catalog rows.
C21_EveryRowInItsBucket ==
    [][\A q \in Principals :
          FetchCategoryStats(q) =>
             LET stats == distribution'.categoryStats
             IN  /\ \A r \in resources : C21_Bucket(r) \in DOMAIN stats
                 /\ \A name \in DOMAIN stats :
                       stats[name] =
                          Cardinality({r \in resources : C21_Bucket(r) = name})
                 /\ C21_Sum(stats) = Cardinality(resources)]_vars

\* the step raises an error notification
C22_Notified ==
    /\ Len(toasts') = Len(toasts) + 1
    /\ toasts'[Len(toasts')].title = "Error"

\* C22: whenever a request of fetchResources, handleView, handleDownload,
\* handleUpload, handleDelete or fetchAnalytics fails, the step that takes
\* the failure raises an error notification, and the page goes on: the
\* handler ends or moves to its next request, the list stops loading, the
\* form stops uploading.
C22_FailuresNotified ==
    [][\A c \in Principals :
          /\ FetchSelectFails(c) => C22_Notified /\ fetch'[c].at = "none"
          /\ \A cached \in cache[c] :
                /\ ViewInsertFails(c, cached) => C22_Notified
                /\ DownloadFails(c, cached) => C22_Notified
          /\ ViewUpdateFails(c) => C22_Notified /\ pc'[c] = Idle
          /\ \A now \in {HoursPerDay} : FetchAnalyticsFails(c, now) => C22_Notified
          /\ (StorageDone(FALSE) \/ InsertDone(FALSE)) =>
                C22_Notified /\ ~form'.uploading
          /\ \A id \in 1..MaxRes : HandleDelete(id, FALSE) => C22_Notified]_vars

\* C23: with one operation running at a time, the counter write of a
\* recordView by a client that may write the resource (its uploader or an
\* admin) leaves the stored view_count exactly 1 above the stored value
\* just before it, whatever was recorded earlier; the same for
\* recordDownload and download_count.
C23_StoredCountPlusOne ==
    [][\A c \in Principals :
          /\ (ViewUpdate(c) /\ Exists(pc[c].id) /\ Permitted(c, pc[c].id)) =>
                RowIn(resources', pc[c].id).view_count
                   = RowIn(resources, pc[c].id).view_count + 1
          /\ \A cached \in cache[c] :
                (SoloDownload(c, cached) /\ Exists(cached.id)
                    /\ Permitted(c, cached.id)) =>
                   RowIn(resources', cached.id).download_count
                      = RowIn(resources, cached.id).download_count + 1]_vars

\* C24: whether the insert of the ViewEvent succeeded or failed, the
\* handler goes on to the counter write of the same resource, and the
\* insert step writes no counter; the counter write, succeeding or failing,
\* leaves the ViewEvent rows as they are (nothing is rolled back), and a
\* failed counter write leaves the counters as they are.
C24_SeparateWrites ==
    [][\A c \in Principals :
          /\ \A cached \in cache[c] :
                (ViewInsert(c, cached) \/ ViewInsertFails(c, cached)) =>
                   /\ pc'[c].at = "viewUpdate" /\ pc'[c].id = cached.id
                   /\ resources' = resources
          /\ (ViewUpdate(c) \/ ViewUpdateFails(c)) =>
                resource_views' = resource_views
          /\ ViewUpdateFails(c) => resources' = resources]_vars

\* the uploader's view was logged and its counter write failed: one
\* ViewEvent row, view_count 0, no handler running
C24_Witness ==
    \E r \in resources :
        /\ r.view_count = 0
        /\ Cardinality(EventsOf(r.id)) = 1
        /\ \A e \in EventsOf(r.id) : e.user_id = r.uploaded_by
        /\ \A c \in Principals : pc[c] = Idle

\* the insert failed and the counter write went through: view_count is
\* above the number of ViewEvent rows
C24_WitnessCountAhead ==
    \E r \in resources :
        /\ r.view_count > Cardinality(EventsOf(r.id))
        /\ \A c \in Principals : pc[c] = Idle

\* C25: once loading has ended, the route of a role-gated path (upload,
\* analytics, users) never shows its page to an authenticated principal
\* whose userRole is null.
C25_NullRoleNeverSeesGatedPage ==
    (/\ ~route.loading
     /\ route.user # NULL
     /\ route.userRole = NULL
     /\ RequireRole(route.path).given)
    => route.element # PageOf(route.path)

C26_Pages == {"Dashboard", "Upload", "Analytics", "Users"}

\* what the routed element is in each case
C26_RenderedOnlyWithUser ==
    route # NoRoute =>
        /\ route.loading => route.element = "Loader2"
        /\ (~route.loading /\ route.user = NULL) =>
              route.path = "/auth" /\ route.element = "Auth"
        /\ route.element \in C26_Pages => ~route.loading /\ route.user # NULL

\* C26: a protected route shows a page only when loading is false and a
\* user is present; while loading is true it shows the loader at the path
\* that was opened (no page, no redirect), and when loading ends without a
\* user every protected path (dashboard, upload, analytics, users) is
\* replaced by /auth.
C26_LoaderThenAuthRedirect ==
    /\ []C26_RenderedOnlyWithUser
    /\ [][/\ \A u \in Principals \cup {NULL} : \A path \in GatedPaths :
               Open(u, path) =>
                  route'.path = path /\ route'.element = "Loader2"
          /\ (AuthLoaded /\ route.user = NULL) =>
                /\ route'.path = "/auth"
                /\ route'.element \notin C26_Pages
          /\ (AuthLoaded /\ route'.element \in C26_Pages) => route.user # NULL]_vars

\* a gated path was opened without a session and loading has ended: the
\* browser is at /auth
C26_Witness ==
    /\ ~route.loading
    /\ route.user = NULL
    /\ route.path = "/auth"
    /\ route.element = "Auth"

\* the fields of the form and the own-resource list are as they were
C27_FormKept ==
    /\ form'.title = form.title /\ form'.description = form.description
    /\ form'.categoryId = form.categoryId /\ form'.file = form.file
    /\ form'.fetching = form.fetching /\ form'.myResources = form.myResources

\* C27: handleUpload sets uploading to true when it starts and every run
\* sets it back to false: when the storage upload fails, when the catalog
\* insert fails and when both succeed. The failures leave title,
\* description, category and file as entered and start no refetch of the
\* own-resource list; the success empties the four fields and starts the
\* refetch.
C27_UploadingAlwaysReset ==
    /\ form.uploading ~> ~form.uploading
    /\ [][/\ SubmitUpload => form'.uploading /\ C27_FormKept
          /\ ((\E ok \in BOOLEAN : StorageDone(ok)) /\ objects' = objects) =>
                ~form'.uploading /\ C27_FormKept
          /\ ((\E ok \in BOOLEAN : StorageDone(ok)) /\ objects' # objects) =>
                form'.uploading /\ C27_FormKept
          /\ ((\E ok \in BOOLEAN : InsertDone(ok)) /\ resources' = resources) =>
                ~form'.uploading /\ C27_FormKept
          /\ ((\E ok \in BOOLEAN : InsertDone(ok)) /\ resources' # resources) =>
                /\ ~form'.uploading
                /\ form'.title = "" /\ form'.description = ""
                /\ form'.categoryId = NoCat /\ form'.file = NULL
                /\ form'.fetching]_vars

\* the file was stored and the catalog insert failed: the handler has
\* ended with an error notification, uploading is false again and the form
\* still holds what was entered
C27_Witness ==
    /\ ~form.uploading /\ form.at = "idle"
    /\ objects # {} /\ resources = {}
    /\ form.title # "" /\ form.file # NULL
    /\ toasts # <<>> /\ toasts[Len(toasts)].title = "Error"

\* the upload went through: the form is empty again and the list is being
\* refetched
C27_WitnessSuccess ==
    /\ ~form.uploading /\ form.at = "idle"
    /\ resources # {}
    /\ form.title = "" /\ form.file = NULL /\ form.fetching
    /\ toasts # <<>> /\ toasts[Len(toasts)].title = "Success"

====
